---------------------------- MODULE Spec2Model ----------------------------
(***************************************************************************)
(* Image-to-DDS converter (image-converter-commented.py).                  *)
(*                                                                         *)
(* ConversionWorker: a background thread that converts each file of a job  *)
(* through an intermediate temp.png and the external tool texconv, and     *)
(* emits progress / error / finished signals.                              *)
(* ImageConverterApp: the main window, whose handlers start jobs and       *)
(* consume the worker's (queued) signals.                                  *)
(*                                                                         *)
(* Paths are sequences of tokens: name pieces separated by the tokens "/"  *)
(* and ".", so that os.path.basename, os.path.splitext, os.path.join and   *)
(* str.lower().endswith() are computed, not assumed.                       *)
(***************************************************************************)
EXTENDS Integers, Sequences, FiniteSets, TLC

\* ------------------------------------------------------------------ bounds

\* Longest job (number of input files) a worker is constructed with.
MaxFiles == 3

\* Largest total_files for which the progress expression alone is explored.
MaxTotal == 50

\* ------------------------------------------------------------------- paths

Sep == "/"

Dot == "."

\* Greatest index of token tok in path p, 0 when absent (str.rfind).
LastIndexOf(p, tok) ==
    LET hits == {k \in 1..Len(p) : p[k] = tok}
    IN  IF hits = {} THEN 0 ELSE CHOOSE k \in hits : \A m \in hits : m <= k

\* os.path.basename: what follows the last separator.
Basename(p) == SubSeq(p, LastIndexOf(p, Sep) + 1, Len(p))

\* os.path.splitext(name)[0]: cut at the last dot, unless only dots precede it.
SplitextRoot(name) ==
    LET k == LastIndexOf(name, Dot)
    IN  IF k > 0 /\ \E j \in 1..(k - 1) : name[j] # Dot
        THEN SubSeq(name, 1, k - 1)
        ELSE name

\* os.path.join(dir, name) for a non-empty dir without trailing separator.
Join(dir, name) == dir \o <<Sep>> \o name

\* str.lower() on one token of the file names that occur.
LowerToken(tok) ==
    CASE tok = "PNG"  -> "png"
      [] tok = "JPG"  -> "jpg"
      [] tok = "Jpeg" -> "jpeg"
      [] tok = "SVG"  -> "svg"
      [] OTHER -> tok

Lower(name) == [k \in 1..Len(name) |-> LowerToken(name[k])]

\* file.lower().endswith(('.png', '.jpg', '.jpeg', '.svg'))
IsImageFile(file) ==
    LET low == Lower(file)
        n   == Len(low)
    IN  n >= 2 /\ low[n - 1] = Dot /\ low[n] \in {"png", "jpg", "jpeg", "svg"}

\* -------------------------------------------------------------- file system

\* A directory tree as a function from the paths that exist to their content.
EmptyFS == [p \in {} |-> [kind |-> "", img |-> <<>>, fmt |-> ""]]

Exists(f, p) == p \in DOMAIN f

Write(f, p, c) == [q \in (DOMAIN f) \cup {p} |-> IF q = p THEN c ELSE f[q]]

Remove(f, p) == [q \in (DOMAIN f) \ {p} |-> f[q]]

\* os.rename(a, b) when a exists: b takes a's content, a is gone.
Rename(f, a, b) == [q \in ((DOMAIN f) \ {a}) \cup {b} |-> IF q = b THEN f[a] ELSE f[q]]

\* ---------------------------------------------------------- the user's disk

PhotoPng == <<"pics", Sep, "photo", Dot, "png">>

PhotoJpg == <<"pics", Sep, "sub", Sep, "photo", Dot, "JPG">>

MapPng   == <<"pics", Sep, "map", Dot, "v2", Dot, "png">>

TempJpeg == <<"shots", Sep, "temp", Dot, "jpeg">>

\* The image files a job can name.  They lie outside the output directories.
FileUniverse == {PhotoPng, PhotoJpg, MapPng, TempJpeg}

\* The directories the output-directory prompt can return.
OutDirs == {<<"out">>, <<"alt">>}

\* The entries of the format combo box.
Formats == {"DXT1", "DXT3", "DXT5"}

\* ------------------------------------------------------- progress arithmetic

\* int((i + 1) / total_files * 100) in IEEE-754 double precision: the
\* quotient is rounded to 53 bits, the product with 100 is rounded to 53
\* bits, and int() truncates.  A 53-bit significand is kept as a leading
\* limb and four 13-bit limbs.
Limb == 8192

RECURSIVE NormExp(_, _)
\* Least e with a * 2^e >= n.
NormExp(a, n) == IF a >= n THEN 0 ELSE 1 + NormExp(2 * a, n)

\* Propagate carries from the low limb s[5] up to the leading limb s[1].
Carry(s) ==
    LET c4 == s[4] + (s[5] \div Limb)
        c3 == s[3] + (c4 \div Limb)
        c2 == s[2] + (c3 \div Limb)
        c1 == s[1] + (c2 \div Limb)
    IN  <<c1, c2 % Limb, c3 % Limb, c4 % Limb, s[5] % Limb>>

\* The significand of the double nearest to a / n, for n <= a < 2n.
QuotientSignificand(a, n) ==
    LET t1 == (a - n) * Limb
        t2 == (t1 % n) * Limb
        t3 == (t2 % n) * Limb
        t4 == (t3 % n) * Limb
        l4 == t4 \div n
        r  == t4 % n
        up == IF 2 * r > n \/ (2 * r = n /\ l4 % 2 = 1) THEN 1 ELSE 0
    IN  Carry(<<1, t1 \div n, t2 \div n, t3 \div n, l4 + up>>)

\* The significand of the double nearest to 100 * m (m a significand):
\* its leading limb is the integer part of 100 * m.
TimesHundred(m) ==
    LET p    == Carry([k \in 1..5 |-> 100 * m[k]])
        d    == IF p[1] >= 128 THEN 7 ELSE 6
        rem  == p[5] % (2 ^ d)
        half == 2 ^ (d - 1)
        up   == rem > half \/ (rem = half /\ (p[5] \div (2 ^ d)) % 2 = 1)
    IN  Carry(<<p[1], p[2], p[3], p[4], (p[5] - rem) + (IF up THEN 2 ^ d ELSE 0)>>)

\* Mutation: round to nearest instead of truncating.
ProgressValueRounded(idx, total) == (2 * (idx + 1) * 100 + total) \div (2 * total)

ProgressValue(idx, total) ==
    LET e == NormExp(idx + 1, total)
        m == QuotientSignificand((idx + 1) * (2 ^ e), total)
    IN  TimesHundred(m)[1] \div (2 ^ e)


\* ------------------------------------------------------------------- state

VARIABLES
    \* ConversionWorker (the object self.worker refers to)
    files,            \* self.files: the job's input paths, in order
    output_dir,       \* self.output_dir
    dds_format,       \* self.dds_format
    i,                \* run's loop index (0-based, as in enumerate)
    pc,               \* run's position: none, open, tool, cleanup, finish, done
    emitted,          \* the signals the worker has emitted, in order
    log,              \* what the worker attempted: opens and texconv runs
    \* the output directories
    fs,
    \* ImageConverterApp
    tool_installed,   \* whether launching texconv succeeds (environment)
    app,              \* start, fatal (error box open in __init__), running, exited
    window_shown,     \* window.show() has run
    file_btn,         \* file_btn.isEnabled()
    folder_btn,       \* folder_btn.isEnabled()
    format_combo,     \* format_combo.currentText()
    progress_visible, \* progress_bar.isVisible()
    progress_value,   \* progress_bar.value()
    status_label,     \* status_label.text()
    dialogs,          \* open modal message boxes, newest last
    handled,          \* how many of the worker's signals the window has handled
    active,           \* workers started whose completion is not yet handled
    prompted,         \* the last select handler showed the output-directory prompt
    \* the progress expression explored on its own
    p_total, p_index, p_value

workerVars == <<files, output_dir, dds_format, i, pc, emitted, log, fs>>

appVars == <<tool_installed, app, window_shown, file_btn, folder_btn, format_combo,
             progress_visible, progress_value, status_label, dialogs, handled, active,
             prompted>>

progressVars == <<p_total, p_index, p_value>>

vars == <<workerVars, appVars, progressVars>>

\* ------------------------------------------------------- ConversionWorker

NoMsg == [text |-> "", path |-> <<>>, cause |-> ""]

NoCmd == [exe |-> "", y |-> FALSE, f |-> "", o |-> <<>>, input |-> <<>>]

\* temp_png = os.path.join(self.output_dir, "temp.png")
TempPng(dir) == Join(dir, <<"temp", Dot, "png">>)

\* temp_dds = os.path.join(self.output_dir, "temp.dds")
TempDds(dir) == Join(dir, <<"temp", Dot, "dds">>)

\* final_path = os.path.join(self.output_dir, f"{base_name}.dds")
FinalPath(dir, input_path) ==
    Join(dir, SplitextRoot(Basename(input_path)) \o <<Dot, "dds">>)

\* The -f flag chosen from self.dds_format.
Compression(fmt) ==
    CASE fmt = "DXT1" -> "-f DXT1"
      [] fmt = "DXT3" -> "-f DXT3"
      [] fmt = "DXT5" -> "-f DXT5"
      [] OTHER -> "-f DXT5"

\* cmd = f"texconv -y {compression} -o \"{self.output_dir}\" \"{temp_png}\""
Command(dir, fmt) ==
    [exe |-> "texconv", y |-> TRUE, f |-> Compression(fmt), o |-> dir,
     input |-> TempPng(dir)]

\* Where texconv writes: the -o directory, the input's base name, .dds.
TexconvOutput(cmd) == Join(cmd.o, SplitextRoot(Basename(cmd.input)) \o <<Dot, "dds">>)

\* Mutation: the wrapped message leaves the path out.
WrapErrorNoPath(input_path, cause) ==
    [text |-> "Error converting", path |-> <<>>, cause |-> cause]

\* raise Exception(f"Error converting {input_path}: {str(e)}")
WrapError(input_path, cause) ==
    [text |-> "Error converting", path |-> input_path, cause |-> cause]

\* Mutation: an existing final file is kept and the new output dropped.
CleanupAndRenameKeepOld(f, dir, input_path) ==
    LET f1    == IF Exists(f, TempPng(dir)) THEN Remove(f, TempPng(dir)) ELSE f
        final == FinalPath(dir, input_path)
    IN  IF Exists(f1, TempDds(dir))
        THEN IF Exists(f1, final)
             THEN [fs |-> Remove(f1, TempDds(dir)), raised |-> FALSE]
             ELSE [fs |-> Rename(f1, TempDds(dir), final), raised |-> FALSE]
        ELSE [fs |-> f1, raised |-> FALSE]

\* The tail of convert_to_dds after a zero exit status: remove temp.png,
\* then move temp.dds to the final path, removing an existing final file
\* first.  os.rename raises FileNotFoundError when temp.dds is gone.
CleanupAndRename(f, dir, input_path) ==
    LET f1    == IF Exists(f, TempPng(dir)) THEN Remove(f, TempPng(dir)) ELSE f
        final == FinalPath(dir, input_path)
    IN  IF Exists(f1, TempDds(dir))
        THEN LET f2 == IF Exists(f1, final) THEN Remove(f1, final) ELSE f1
             IN  IF Exists(f2, TempDds(dir))
                 THEN [fs |-> Rename(f2, TempDds(dir), final), raised |-> FALSE]
                 ELSE [fs |-> f2, raised |-> TRUE]
        ELSE [fs |-> f1, raised |-> FALSE]

\* Mutation: the loop stays on the failed file.
AfterErrorRetry(idx) == idx

\* The index run continues with after the file at idx raised.
AfterError(idx) == idx + 1

\* run's position once the loop moves to index idx.
LoopAt(idx) == IF idx < Len(files) THEN "open" ELSE "finish"

\* except Exception as e: self.error.emit(str(e)), then the next file.
Raise(cause) ==
    /\ emitted' = Append(emitted, [sig |-> "error", value |-> 0,
                                   msg |-> WrapError(files[i + 1], cause)])
    /\ i' = AfterError(i)
    /\ pc' = LoopAt(AfterError(i))

\* img = Image.open(input_path); img.save(temp_png, "PNG")
\* Either both succeed and temp.png holds the image, or the open raises and
\* nothing is written.
OpenImage ==
    /\ pc = "open"
    /\ \E ok \in BOOLEAN :
         /\ log' = Append(log, [op |-> "open", idx |-> i,
                                res |-> IF ok THEN "decoded" ELSE "decode_error",
                                cmd |-> NoCmd])
         /\ IF ok
            THEN /\ fs' = Write(fs, TempPng(output_dir),
                                [kind |-> "png", img |-> files[i + 1], fmt |-> ""])
                 /\ pc' = "tool"
                 /\ UNCHANGED <<i, emitted>>
            ELSE /\ Raise("cannot identify image file")
                 /\ UNCHANGED fs
    /\ UNCHANGED <<files, output_dir, dds_format, appVars, progressVars>>

\* subprocess.Popen(cmd, shell=True, ...); communicate(); returncode check
\* texconv writes its output only when it exits with status zero.
RunTool ==
    /\ pc = "tool"
    /\ \E res \in {"launch_error", "exit_nonzero", "exit_zero"} :
         LET cmd == Command(output_dir, dds_format)
         IN  /\ log' = Append(log, [op |-> "texconv", idx |-> i, res |-> res, cmd |-> cmd])
             /\ IF res = "exit_zero"
                THEN /\ fs' = Write(fs, TexconvOutput(cmd),
                                    [kind |-> "dds", img |-> fs[cmd.input].img, fmt |-> cmd.f])
                     /\ pc' = "cleanup"
                     /\ UNCHANGED <<i, emitted>>
                ELSE /\ Raise(IF res = "launch_error" THEN "cannot launch"
                              ELSE "Conversion failed")
                     /\ UNCHANGED fs
    /\ UNCHANGED <<files, output_dir, dds_format, appVars, progressVars>>

\* Cleanup and rename, then back in run: self.progress.emit(progress)
FinishFile ==
    /\ pc = "cleanup"
    /\ LET r == CleanupAndRename(fs, output_dir, files[i + 1])
       IN  /\ fs' = r.fs
           /\ IF r.raised
              THEN Raise("No such file or directory")
              ELSE /\ emitted' = Append(emitted,
                                        [sig |-> "progress",
                                         value |-> ProgressValue(i, Len(files)),
                                         msg |-> NoMsg])
                   /\ i' = i + 1
                   /\ pc' = LoopAt(i + 1)
    /\ UNCHANGED <<files, output_dir, dds_format, log, appVars, progressVars>>

\* self.finished.emit(), and run returns
Finished ==
    /\ pc = "finish"
    /\ emitted' = Append(emitted, [sig |-> "finished", value |-> 0, msg |-> NoMsg])
    /\ pc' = "done"
    /\ UNCHANGED <<files, output_dir, dds_format, i, log, fs, appVars, progressVars>>

WorkerNext == OpenImage \/ RunTool \/ FinishFile \/ Finished

\* The jobs a worker can be constructed with.
RECURSIVE SeqsOfLen(_, _)
SeqsOfLen(S, n) ==
    IF n = 0 THEN {<<>>}
    ELSE {Append(s, x) : s \in SeqsOfLen(S, n - 1), x \in S}

Jobs == UNION {SeqsOfLen(FileUniverse, n) : n \in 1..MaxFiles}

\* The window's state while a job it started is running (after convert_files).
WindowDuringJob ==
    /\ tool_installed = TRUE
    /\ app = "running"
    /\ window_shown = TRUE
    /\ file_btn = FALSE
    /\ folder_btn = FALSE
    /\ format_combo \in Formats
    /\ progress_visible = TRUE
    /\ progress_value = 0
    /\ status_label = [text |-> "", value |-> 0]
    /\ dialogs = <<>>
    /\ handled = 0
    /\ active = 1
    /\ prompted = TRUE

ProgressIdle ==
    /\ p_total = 1
    /\ p_index = 0
    /\ p_value = 0

\* A ConversionWorker just constructed and started on an empty output directory.
InitWorker ==
    /\ files \in Jobs
    /\ output_dir \in OutDirs
    /\ WindowDuringJob
    /\ dds_format = format_combo
    /\ i = 0
    /\ pc = "open"
    /\ emitted = <<>>
    /\ log = <<>>
    /\ fs = EmptyFS
    /\ ProgressIdle

SpecWorker == InitWorker /\ [][WorkerNext]_vars

\* ------------------------------------------------- the progress expression

InitProgress ==
    /\ p_total \in 1..MaxTotal
    /\ p_index = 0
    /\ p_value = 0
    /\ files = <<>>
    /\ output_dir = <<>>
    /\ dds_format = "DXT5"
    /\ i = 0
    /\ pc = "none"
    /\ emitted = <<>>
    /\ log = <<>>
    /\ fs = EmptyFS
    /\ tool_installed = TRUE
    /\ app = "start"
    /\ window_shown = FALSE
    /\ file_btn = TRUE
    /\ folder_btn = TRUE
    /\ format_combo = "DXT1"
    /\ progress_visible = FALSE
    /\ progress_value = 0
    /\ status_label = [text |-> "", value |-> 0]
    /\ dialogs = <<>>
    /\ handled = 0
    /\ active = 0
    /\ prompted = FALSE

\* One loop iteration of run over a file that converts: progress is computed.
ProgressStep ==
    /\ p_index < p_total
    /\ p_value' = ProgressValue(p_index, p_total)
    /\ p_index' = p_index + 1
    /\ UNCHANGED <<p_total, workerVars, appVars>>

SpecProgress == InitProgress /\ [][ProgressStep]_vars

\* ------------------------------------------------------ ImageConverterApp

\* What os.walk yields for each folder the folder prompt can return:
\* (root, file name) pairs, top-down.
WalkOf(folder) ==
    CASE folder = <<"pics">> ->
           << [root |-> <<"pics">>, file |-> <<"photo", Dot, "png">>],
              [root |-> <<"pics">>, file |-> <<"notes", Dot, "txt">>],
              [root |-> <<"pics", Sep, "sub">>, file |-> <<"photo", Dot, "JPG">>] >>
      [] folder = <<"docs">> ->
           << [root |-> <<"docs">>, file |-> <<"readme", Dot, "txt">>],
              [root |-> <<"docs">>, file |-> <<"scan", Dot, "png", Dot, "bak">>],
              [root |-> <<"docs">>, file |-> <<"png">>] >>
      [] OTHER -> << >>

Folders == {<<"pics">>, <<"docs">>, <<"empty">>}

\* The files the Select Image prompt can return.
PickableFiles == {PhotoPng, TempJpeg}

\* Cancelling a prompt returns the empty string.
Cancelled == << >>

RECURSIVE CollectImages(_)
\* image_files: the walk's entries with a recognized extension, joined.
CollectImages(walk) ==
    IF walk = << >> THEN << >>
    ELSE LET e == Head(walk)
         IN  (IF IsImageFile(e.file) THEN <<Join(e.root, e.file)>> ELSE << >>)
             \o CollectImages(Tail(walk))

\* Mutation: the emptiness test always passes.
HasImagesAlways(image_files) == TRUE

\* if image_files:
HasImages(image_files) == image_files # << >>

\* Mutation: texconv is reported available whatever the launch did.
CheckTexconvAlwaysTrue(installed) == TRUE

\* check_texconv: subprocess.run raises when texconv cannot be launched.
CheckTexconv(installed) == IF installed THEN TRUE ELSE FALSE

\* Mutation: the buttons stay enabled during a conversion.
ButtonsDuringConversionEnabled == TRUE

\* setEnabled(False) on both buttons once the worker is started.
ButtonsDuringConversion == FALSE

\* app = QApplication(); window = ImageConverterApp(); window.show()
Launch ==
    /\ app = "start"
    /\ IF CheckTexconv(tool_installed)
       THEN /\ app' = "running"
            /\ window_shown' = TRUE
            /\ UNCHANGED dialogs
       ELSE /\ app' = "fatal"
            /\ dialogs' = Append(dialogs, "critical")
            /\ UNCHANGED window_shown
    /\ UNCHANGED <<workerVars, progressVars, prompted, tool_installed, file_btn, folder_btn,
                   format_combo, progress_visible, progress_value, status_label,
                   handled, active>>

\* The error box of __init__ is closed: sys.exit(1)
FatalExit ==
    /\ app = "fatal"
    /\ dialogs' = << >>
    /\ app' = "exited"
    /\ UNCHANGED <<workerVars, progressVars, prompted, tool_installed, window_shown, file_btn,
                   folder_btn, format_combo, progress_visible, progress_value,
                   status_label, handled, active>>

\* The main window takes input: it is shown and no modal box is open.
WindowAcceptsInput == app = "running" /\ window_shown /\ dialogs = << >>

\* convert_files(files)
ConvertFiles(job) ==
    \E dir \in OutDirs \cup {Cancelled} :
        IF dir = Cancelled
        THEN /\ prompted' = TRUE
             /\ UNCHANGED <<workerVars, progressVars, tool_installed, app, window_shown,
                            file_btn, folder_btn, format_combo, progress_visible,
                            progress_value, status_label, dialogs, handled, active>>
        ELSE /\ prompted' = TRUE
             /\ progress_visible' = TRUE
             /\ progress_value' = 0
             /\ files' = job
             /\ output_dir' = dir
             /\ dds_format' = format_combo
             /\ i' = 0
             /\ pc' = IF job = << >> THEN "finish" ELSE "open"
             /\ emitted' = << >>
             /\ log' = << >>
             /\ handled' = 0
             /\ active' = active + 1
             /\ file_btn' = ButtonsDuringConversion
             /\ folder_btn' = ButtonsDuringConversion
             /\ UNCHANGED <<fs, tool_installed, app, window_shown, format_combo,
                            status_label, dialogs, progressVars>>

\* select_file
SelectFile ==
    /\ WindowAcceptsInput
    /\ file_btn
    /\ \E file_path \in PickableFiles \cup {Cancelled} :
         IF file_path # Cancelled
         THEN ConvertFiles(<<file_path>>)
         ELSE /\ prompted' = FALSE
              /\ UNCHANGED <<workerVars, progressVars, tool_installed, app, window_shown,
                             file_btn, folder_btn, format_combo, progress_visible,
                             progress_value, status_label, dialogs, handled, active>>

\* select_folder with the folder prompt returning folder_path
SelectFolderAt(folder_path) ==
    /\ WindowAcceptsInput
    /\ folder_btn
    /\ IF folder_path # Cancelled
       THEN LET image_files == CollectImages(WalkOf(folder_path))
            IN  IF HasImages(image_files)
                THEN ConvertFiles(image_files)
                ELSE /\ dialogs' = Append(dialogs, "warning")
                     /\ prompted' = FALSE
                     /\ UNCHANGED <<workerVars, progressVars, tool_installed, app,
                                    window_shown, file_btn, folder_btn, format_combo,
                                    progress_visible, progress_value, status_label,
                                    handled, active>>
       ELSE /\ prompted' = FALSE
            /\ UNCHANGED <<workerVars, progressVars, tool_installed, app, window_shown,
                           file_btn, folder_btn, format_combo, progress_visible,
                           progress_value, status_label, dialogs, handled, active>>

SelectFolder == \E folder_path \in Folders \cup {Cancelled} : SelectFolderAt(folder_path)

\* The user picks an entry of the format combo box.
SetFormat ==
    /\ WindowAcceptsInput
    /\ \E f \in Formats : format_combo' = f
    /\ UNCHANGED <<workerVars, progressVars, prompted, tool_installed, app, window_shown, file_btn,
                   folder_btn, progress_visible, progress_value, status_label, dialogs,
                   handled, active>>

\* The next queued signal of the worker, delivered by the event loop.
Pending == app = "running" /\ handled < Len(emitted)

\* update_progress(value)
UpdateProgress ==
    /\ Pending
    /\ emitted[handled + 1].sig = "progress"
    /\ progress_value' = emitted[handled + 1].value
    /\ status_label' = [text |-> "Converting...", value |-> emitted[handled + 1].value]
    /\ handled' = handled + 1
    /\ UNCHANGED <<workerVars, progressVars, prompted, tool_installed, app, window_shown, file_btn,
                   folder_btn, format_combo, progress_visible, dialogs, active>>

\* show_error(error_message)
ShowError ==
    /\ Pending
    /\ emitted[handled + 1].sig = "error"
    /\ dialogs' = Append(dialogs, "critical")
    /\ handled' = handled + 1
    /\ UNCHANGED <<workerVars, progressVars, prompted, tool_installed, app, window_shown, file_btn,
                   folder_btn, format_combo, progress_visible, progress_value,
                   status_label, active>>

\* conversion_finished
ConversionFinished ==
    /\ Pending
    /\ emitted[handled + 1].sig = "finished"
    /\ progress_visible' = FALSE
    /\ status_label' = [text |-> "Conversion completed successfully!", value |-> 0]
    /\ file_btn' = TRUE
    /\ folder_btn' = TRUE
    /\ dialogs' = Append(dialogs, "information")
    /\ handled' = handled + 1
    /\ active' = active - 1
    /\ UNCHANGED <<workerVars, progressVars, prompted, tool_installed, app, window_shown,
                   format_combo, progress_value>>

\* The user closes the newest message box.
DismissDialog ==
    /\ app = "running"
    /\ dialogs # << >>
    /\ dialogs' = SubSeq(dialogs, 1, Len(dialogs) - 1)
    /\ UNCHANGED <<workerVars, progressVars, prompted, tool_installed, app, window_shown, file_btn,
                   folder_btn, format_combo, progress_visible, progress_value,
                   status_label, handled, active>>

\* The process before QApplication is created.
Init ==
    /\ tool_installed \in BOOLEAN
    /\ app = "start"
    /\ window_shown = FALSE
    /\ file_btn = TRUE
    /\ folder_btn = TRUE
    /\ format_combo = "DXT1"
    /\ progress_visible = FALSE
    /\ progress_value = 0
    /\ status_label = [text |-> "", value |-> 0]
    /\ dialogs = << >>
    /\ handled = 0
    /\ active = 0
    /\ prompted = FALSE
    /\ files = << >>
    /\ output_dir = << >>
    /\ dds_format = ""
    /\ i = 0
    /\ pc = "none"
    /\ emitted = << >>
    /\ log = << >>
    /\ fs = EmptyFS
    /\ ProgressIdle

Next ==
    \/ Launch
    \/ FatalExit
    \/ SelectFile
    \/ SelectFolder
    \/ SetFormat
    \/ UpdateProgress
    \/ ShowError
    \/ ConversionFinished
    \/ DismissDialog
    \/ OpenImage
    \/ RunTool
    \/ FinishFile
    \/ Finished

Spec == Init /\ [][Next]_vars

\* ------------------------------------------------------------- properties

\* Reading the worker's history.
ProgressSignals == SelectSeq(emitted, LAMBDA e : e.sig = "progress")

ErrorSignals == SelectSeq(emitted, LAMBDA e : e.sig = "error")

FinishedSignals == SelectSeq(emitted, LAMBDA e : e.sig = "finished")

Opens == SelectSeq(log, LAMBDA e : e.op = "open")

ToolRuns == SelectSeq(log, LAMBDA e : e.op = "texconv")

JobDone == pc = "done"

NoErrors == ErrorSignals = << >>

\* The file at loop index k was attempted and the attempt ended with res.
Ended(k, res) == \E n \in 1..Len(log) : log[n].idx = k /\ log[n].res = res

\* The file at index k failed to decode, to launch the tool, or the tool
\* exited non-zero.
Failed(k) ==
    Ended(k, "decode_error") \/ Ended(k, "launch_error") \/ Ended(k, "exit_nonzero")

\* round(num / den * 100) for the claim as stated: nearest, ties to even.
RoundPercent(num, den) ==
    LET q == (num * 100) \div den
        r == (num * 100) % den
    IN  IF 2 * r > den \/ (2 * r = den /\ q % 2 = 1) THEN q + 1 ELSE q

NonDecreasing(s) == \A k \in 1..(Len(s) - 1) : s[k].value <= s[k + 1].value

C2_ErrorPerFailedFile ==
    /\ Len(ProgressSignals) + Len(ErrorSignals) = i
    /\ \A k \in 0..(i - 1) :
         /\ emitted[k + 1].sig \in {"progress", "error"}
         /\ Failed(k) =>
              /\ emitted[k + 1].sig = "error"
              /\ emitted[k + 1].msg.path = files[k + 1]
              /\ emitted[k + 1].msg.text = "Error converting"
    /\ IF JobDone
       THEN /\ i = Len(files)
            /\ Len(emitted) = Len(files) + 1
            /\ emitted[Len(emitted)].sig = "finished"
            /\ Len(FinishedSignals) = 1
       ELSE /\ FinishedSignals = << >>
            /\ pc \in {"open", "tool", "cleanup", "finish"}
            /\ pc = "finish" <=> i = Len(files)

\* A finished job in which one file failed in each of the three ways.
C2_Witness ==
    /\ JobDone
    /\ \E a, b, c \in 0..(Len(files) - 1) :
         Ended(a, "decode_error") /\ Ended(b, "launch_error") /\ Ended(c, "exit_nonzero")

\* The flag that selects compression choice F.
FlagFor(F) == IF F = "DXT1" THEN "-f DXT1" ELSE IF F = "DXT3" THEN "-f DXT3" ELSE "-f DXT5"

\* C3 as stated: once a file whose decode succeeded and whose texconv run
\* exited with status zero has been processed, texconv was run with the flag
\* of the chosen format on the chosen directory, B.dds exists in the output
\* directory and no error was reported for that file.
C3_OutputNamedAfterInput ==
    \A k \in 0..(i - 1) :
        Ended(k, "exit_zero") =>
            /\ \E n \in 1..Len(log) :
                 /\ log[n].idx = k
                 /\ log[n].op = "texconv"
                 /\ log[n].cmd.f = FlagFor(dds_format)
                 /\ log[n].cmd.o = output_dir
            /\ Exists(fs, Join(output_dir,
                               SplitextRoot(Basename(files[k + 1])) \o <<Dot, "dds">>))
            /\ emitted[k + 1].sig = "progress"

\* C4 as stated: right after a file whose texconv run exited with status
\* zero, temp.png is gone; and once the completion notification is emitted
\* neither temp.png nor temp.dds is left in the output directory.
C4_NoTempArtifacts ==
    /\ (i > 0 /\ pc \in {"open", "finish", "done"} /\ Ended(i - 1, "exit_zero"))
         => ~Exists(fs, TempPng(output_dir))
    /\ FinishedSignals # << >> =>
         /\ ~Exists(fs, TempPng(output_dir))
         /\ ~Exists(fs, TempDds(output_dir))

\* C5: at most one worker is active (started, completion not yet handled);
\* while one is, both Select buttons are disabled; a worker that has not
\* returned from run is the active one.
C5_SingleWorker ==
    /\ active \in {0, 1}
    /\ active = 1 => (~file_btn /\ ~folder_btn)
    /\ pc \in {"open", "tool", "cleanup", "finish"} => active = 1
    /\ handled < Len(emitted) => active = 1

\* A later job is on its first file, buttons disabled, while the disk holds
\* the output of an earlier job whose completion re-enabled them.
C5_Witness ==
    /\ active = 1
    /\ pc = "tool"
    /\ i = 0
    /\ ~file_btn /\ ~folder_btn
    /\ \E p \in DOMAIN fs : fs[p].kind = "dds"

\* C6: when texconv cannot be launched at start-up, the window is never
\* shown, no worker is ever started, and the only message box ever opened is
\* the one error box of __init__, after which the process exits.
C6_FatalWithoutTool ==
    /\ [](~tool_installed =>
            /\ ~window_shown
            /\ active = 0
            /\ pc = "none"
            /\ \/ app = "start"  /\ dialogs = << >>
               \/ app = "fatal"  /\ dialogs = <<"critical">>
               \/ app = "exited" /\ dialogs = << >>)
    /\ [][~tool_installed =>
            \/ (app = "start" /\ app' = "fatal")
            \/ (app = "fatal" /\ app' = "exited")
            \/ UNCHANGED <<app, dialogs>>]_vars

\* Without texconv the process has exited.
C6_Witness == ~tool_installed /\ app = "exited"

\* A folder none of whose walked file names has a recognized extension.
NoRecognizedImage(folder) ==
    \A n \in 1..Len(WalkOf(folder)) : ~IsImageFile(WalkOf(folder)[n].file)

\* C7: a select_folder run on a folder without recognized image files opens
\* a warning box and changes nothing else: no output-directory prompt, no
\* worker, buttons and progress display as they were.
C7_EmptyFolderWarns ==
    [][\A folder \in Folders :
          (SelectFolderAt(folder) /\ NoRecognizedImage(folder)) =>
              /\ dialogs' = Append(dialogs, "warning")
              /\ prompted' = FALSE
              /\ UNCHANGED <<workerVars, file_btn, folder_btn, progress_visible,
                             progress_value, status_label, handled, active,
                             format_combo, app, window_shown>>]_vars

\* The warning box is open and nothing was ever started.
C7_Witness ==
    /\ dialogs = <<"warning">>
    /\ ~prompted
    /\ pc = "none"
    /\ file_btn /\ folder_btn

\* C8 as stated: after the file at index i of N, the progress value is
\* (i+1)/N*100 rounded down.
C8_RoundedDown == p_index > 0 => p_value = (p_index * 100) \div p_total

\* C9: files are opened in input order, each exactly once; texconv runs at
\* most once per file, in order, only for a file that decoded; a failure
\* moves the loop to the next file, and a finished job has attempted all.
C9_InOrderOnce ==
    /\ \A n \in 1..Len(Opens) : Opens[n].idx = n - 1
    /\ Len(Opens) = IF pc \in {"tool", "cleanup"} THEN i + 1 ELSE i
    /\ \A n \in 1..(Len(ToolRuns) - 1) : ToolRuns[n].idx < ToolRuns[n + 1].idx
    /\ \A n \in 1..Len(ToolRuns) :
         /\ Ended(ToolRuns[n].idx, "decoded")
         /\ ~Ended(ToolRuns[n].idx, "decode_error")
    /\ JobDone => Len(Opens) = Len(files)

\* A finished job whose first file failed and whose last file reached texconv.
C9_Witness ==
    /\ JobDone
    /\ Len(files) >= 2
    /\ Failed(0)
    /\ \E n \in 1..Len(ToolRuns) : ToolRuns[n].idx = Len(files) - 1

\* The base name of an input path.
BaseOf(p) == SplitextRoot(Basename(p))

\* The indices of the job's files with base name B that converted.
ConvertedAs(B) ==
    {k \in 0..(Len(files) - 1) : BaseOf(files[k + 1]) = B /\ emitted[k + 1].sig = "progress"}

Greatest(S) == CHOOSE k \in S : \A m \in S : m <= k

\* C10: after a job on an empty directory, for every base name B with a
\* converted file, B.dds holds the image of the last converted file named B;
\* and when every file converted, the directory holds exactly one file per
\* distinct base name.
C10_LastWriterWins ==
    JobDone =>
        /\ \A f \in {files[n] : n \in 1..Len(files)} :
             LET B == BaseOf(f)
                 out == Join(output_dir, B \o <<Dot, "dds">>)
             IN  ConvertedAs(B) # {} =>
                     /\ Exists(fs, out)
                     /\ fs[out].img = files[Greatest(ConvertedAs(B)) + 1]
        /\ NoErrors =>
             /\ DOMAIN fs = {Join(output_dir, BaseOf(files[n]) \o <<Dot, "dds">>) :
                               n \in 1..Len(files)}
             /\ Cardinality(DOMAIN fs) = Cardinality({BaseOf(files[n]) : n \in 1..Len(files)})

\* All of three files converted, two of them distinct files with one base
\* name, leaving two outputs.
C10_Witness ==
    /\ JobDone
    /\ NoErrors
    /\ Len(files) = 3
    /\ files[1] # files[2]
    /\ BaseOf(files[1]) = BaseOf(files[2])
    /\ Cardinality(DOMAIN fs) = 2

=============================================================================
